---------------------------- MODULE Spec2Model ----------------------------
(***************************************************************************)
(* Model of the MCP gateway of first_server/opencost_client.go: the three  *)
(* HTTP handlers (cloudCostsHandler, allocationsHandler, assetsHandler)    *)
(* and the package-level map `sessions` they share.                        *)
(*                                                                         *)
(* net/http runs every request in a goroutine of its own, so a handler is  *)
(* modelled as a sequence of steps, one per access to shared memory (the   *)
(* map, the backing arrays of the history slices) or to the network.       *)
(* The handlers take no lock: accesses of different requests interleave    *)
(* freely.  Go slices are modelled as headers (array, len, cap) over a     *)
(* heap of backing arrays, because `append(existing, queryText)` writes    *)
(* into the array it shares with the stored history whenever len < cap.    *)
(*                                                                         *)
(* The filters are modelled end to end: the query string and the body of a *)
(* request, the query string the gateway sends to the data source, the     *)
(* handlers of mock_server/mock_opencost_server.go that answer it, and the *)
(* gateway's local filter pass over the answer.  Strings are compared on   *)
(* their bytes and timestamps on the instants time.Parse gives them.       *)
(*                                                                         *)
(* The specifications: Spec (overlapping requests), SpecFair (the same,    *)
(* with every handler scheduled fairly), SpecSeq (requests served one      *)
(* after another), SpecFilter (one request, and its repetition, against a  *)
(* data source of arbitrary records) and SpecCLI (the interactive client   *)
(* of unnamed/part_001 as the only client of the gateway).                 *)
(***************************************************************************)
EXTENDS Integers, Sequences, FiniteSets, TLC

\* ----------------------------------------------------------------- bounds
\* Handlers (goroutines of net/http) that can be in flight at once.
MaxConc == 2
\* Requests received over a whole run with overlapping requests.
MaxRequests == 5
\* Requests received over a whole run of requests served one after another.
MaxSeqRequests == 4
\* The last RaceWindow requests of a run may overlap with each other; the
\* requests before them are served one after another and build up the store.
RaceWindow == 2
\* Records the data source holds of one resource kind.
MaxRecords == 2
\* Requests received over a run that checks the filters.
MaxFilterRequests == 2
\* Turns of the loop of the CLI client over a whole run.
MaxCliTurns == 3

Workers == 1..MaxConc

\* ------------------------------------------------------------- input sets
\* Session identifiers and query texts a body can carry; "" is an absent field
\* (json omitempty / zero value of a Go string).
Keys == {"s1", "s2"}
Queries == {"Q1", "Q2"}
Endpoints == {"cloudCosts", "allocations", "assets"}

\* A string read from a slot that two goroutines wrote without synchronisation:
\* a Go string is two words, so the read can pair one write's pointer with the
\* other's length.
Torn == "<torn>"

\* ------------------------------------------------------------ Go strings
\* The bytes of the strings the filters compare.  A string that is not listed is
\* a single symbol of its own: equal to itself only and without case.
Spelling ==
  "" :> <<>> @@
  "prod" :> <<"p", "r", "o", "d">> @@
  "PROD" :> <<"P", "R", "O", "D">> @@
  "Prod" :> <<"P", "r", "o", "d">> @@
  "dev" :> <<"d", "e", "v">> @@
  "vm" :> <<"v", "m">> @@
  "prod-vm-1" :> <<"p", "r", "o", "d", "-", "v", "m", "-", "1">> @@
  "dev-vm-2" :> <<"d", "e", "v", "-", "v", "m", "-", "2">> @@
  "AWS" :> <<"A", "W", "S">> @@
  "aws" :> <<"a", "w", "s">> @@
  "Azure" :> <<"A", "z", "u", "r", "e">> @@
  "azure" :> <<"a", "z", "u", "r", "e">> @@
  "us-west-2" :> <<"u", "s", "-", "w", "e", "s", "t", "-", "2">> @@
  "US-WEST-2" :> <<"U", "S", "-", "W", "E", "S", "T", "-", "2">> @@
  "centralindia" :> <<"c", "e", "n", "t", "r", "a", "l", "i", "n", "d", "i", "a">> @@
  "quit" :> <<"q", "u", "i", "t">> @@
  "exit" :> <<"e", "x", "i", "t">> @@
  "EXIT" :> <<"E", "X", "I", "T">>

Chars(s) == IF s \in DOMAIN Spelling THEN Spelling[s] ELSE <<s>>

UpperCase ==
  <<"A", "B", "C", "D", "E", "F", "G", "H", "I", "J", "K", "L", "M",
    "N", "O", "P", "Q", "R", "S", "T", "U", "V", "W", "X", "Y", "Z">>
LowerCase ==
  <<"a", "b", "c", "d", "e", "f", "g", "h", "i", "j", "k", "l", "m",
    "n", "o", "p", "q", "r", "s", "t", "u", "v", "w", "x", "y", "z">>

\* strings.ToLower, on the bytes of a string.
ToLower(cs) ==
  [i \in 1..Len(cs) |->
     IF \E j \in 1..Len(UpperCase) : UpperCase[j] = cs[i]
       THEN LowerCase[CHOOSE j \in 1..Len(UpperCase) : UpperCase[j] = cs[i]]
       ELSE cs[i]]

\* strings.Contains(s, substr), on bytes.
Contains(cs, sub) ==
  \E i \in 0..(Len(cs) - Len(sub)) : SubSeq(cs, i + 1, i + Len(sub)) = sub

\* strings.EqualFold(s, t): equality under case folding.
EqualFold(s, t) == ToLower(Chars(s)) = ToLower(Chars(t))

\* ------------------------------------------------------------- timestamps
T1 == "2025-08-01T00:00:00Z"
T2 == "2025-08-02T00:00:00Z"
T3 == "2025-08-03T00:00:00Z"
\* A string that time.Parse(time.RFC3339, ...) rejects.
BadTime == "yesterday"

\* The instants (in days) of the strings that are well-formed RFC3339.
Instants == T1 :> 1 @@ T2 :> 2 @@ T3 :> 3

\* time.Time{}, the zero time (January 1, year 1), before every other instant.
ZeroTime == 0

\* time.Parse(time.RFC3339, s): the instant, or the zero time and an error.
timeParse(s) ==
  IF s \in DOMAIN Instants
    THEN [t |-> Instants[s], err |-> FALSE]
    ELSE [t |-> ZeroTime, err |-> TRUE]

\* parseDate: the zero time without error for "", else time.Parse.
parseDate(dateStr) ==
  IF dateStr = "" THEN [t |-> ZeroTime, err |-> FALSE] ELSE timeParse(dateStr)

\* ---------------------------------------------------- URLs and filter sets
\* The fields of AgenticQuery.Filters; the zero value of the struct.
FilterFields == {"namespace", "start", "end", "provider", "region"}
NoFilters == [f \in FilterFields |-> ""]

\* The query string of a URL: the parameters that are present, by name.
\* get*WithFilters appends a parameter only when its value is not empty.
Params(f) == [n \in {m \in DOMAIN f : f[m] # ""} |-> f[n]]
NoParams == Params(NoFilters)

\* r.URL.Query().Get(name): "" for a parameter that is absent.
Get(q, name) == IF name \in DOMAIN q THEN q[name] ELSE ""

\* What the test of an HTTP request sees: the path, the method, the query string
\* of the URL, whether the POST body decodes into an AgenticQuery, and the
\* fields of the decoded body.
Requests ==
  [endpoint : Endpoints, method : {"GET"}, url : {NoParams}, bodyOK : {TRUE},
   filters : {NoFilters}, sid : {""}, query : {""}]
  \cup
  [endpoint : Endpoints, method : {"POST"}, url : {NoParams}, bodyOK : {FALSE},
   filters : {NoFilters}, sid : {""}, query : {""}]
  \cup
  [endpoint : Endpoints, method : {"POST"}, url : {NoParams}, bodyOK : {TRUE},
   filters : {NoFilters}, sid : Keys \cup {""}, query : Queries \cup {""}]

NoRequest ==
  [endpoint |-> "cloudCosts", method |-> "GET", url |-> NoParams,
   bodyOK |-> TRUE, filters |-> NoFilters, sid |-> "", query |-> ""]

\* Outcomes of http.Get and of decoding its body in get*WithFilters.
FetchOutcomes == {"ok", "unreachable", "non200", "undecodable"}

\* ------------------------------------------------------------ data source
\* Records, with the fields the filters read (the cost fields are forwarded
\* untouched and are left out).
CloudCostRecords == [name : {"prod-vm-1", "dev-vm-2", "PROD"}]

AllocationRecords ==
  {[namespace |-> "dev", start_time |-> T1, end_time |-> T2]}
  \cup
  {[namespace |-> "prod", start_time |-> p[1], end_time |-> p[2]] :
     p \in {<<T1, T2>>, <<T3, T3>>, <<T1, BadTime>>, <<BadTime, T2>>}}

AssetRecords == [provider : {"AWS", "Azure"}, region : {"us-west-2", "centralindia"}]

\* The data of the mock server.
cloudCostsData == <<[name |-> "prod-vm-1"], [name |-> "dev-vm-2"]>>
allocationsData ==
  <<[namespace |-> "dev", start_time |-> T1, end_time |-> T2],
    [namespace |-> "prod", start_time |-> T1, end_time |-> T2]>>
assetsData ==
  <<[provider |-> "AWS", region |-> "us-west-2"],
    [provider |-> "Azure", region |-> "centralindia"]>>

MockData ==
  [cloudCosts |-> cloudCostsData, allocations |-> allocationsData,
   assets |-> assetsData]

\* mock cloudCostsHandler: the records kept for the query string q.
mockCloudCostsHandler(data, q) ==
  LET namespace == Get(q, "namespace") IN
    SelectSeq(data, LAMBDA cost :
      \/ namespace = ""
      \/ Contains(ToLower(Chars(cost.name)), ToLower(Chars(namespace))))

\* mock allocationsHandler: one pass of its loop keeps the record unless one of
\* the three tests reaches `continue`.
mockKeepsAllocation(alloc, namespace, start, end) ==
  LET startTime == timeParse(start)
      endTime == timeParse(end)
      allocEnd == timeParse(alloc.end_time)
      allocStart == timeParse(alloc.start_time) IN
    /\ ~(namespace # "" /\ alloc.namespace # namespace)
    /\ ~(/\ start # "" /\ ~startTime.err
         /\ ~allocEnd.err /\ allocEnd.t < startTime.t)
    /\ ~(/\ end # "" /\ ~endTime.err
         /\ ~allocStart.err /\ allocStart.t > endTime.t)

mockAllocationsHandler(data, q) ==
  SelectSeq(data, LAMBDA alloc :
    mockKeepsAllocation(alloc, Get(q, "namespace"), Get(q, "start"), Get(q, "end")))

\* mock assetsHandler.
mockAssetsHandler(data, q) ==
  LET provider == Get(q, "provider")
      region == Get(q, "region") IN
    SelectSeq(data, LAMBDA asset :
      /\ ~(provider # "" /\ ~EqualFold(asset.provider, provider))
      /\ ~(region # "" /\ ~EqualFold(asset.region, region)))

\* The answer of the data source at :9005 to GET /<endpoint>?<q>.
MockServer(src, endpoint, q) ==
  CASE endpoint = "cloudCosts" -> mockCloudCostsHandler(src.cloudCosts, q)
    [] endpoint = "allocations" -> mockAllocationsHandler(src.allocations, q)
    [] endpoint = "assets" -> mockAssetsHandler(src.assets, q)

\* ------------------------------------------------- the gateway's filters
\* The query strings built by get*WithFilters.
getCloudCostsWithFilters(namespace) == Params([namespace |-> namespace])
getAllocationsWithFilters(namespace, start, end) ==
  Params([namespace |-> namespace, start |-> start, end |-> end])
getAssetsWithFilters(provider, region) ==
  Params([provider |-> provider, region |-> region])

\* Mutant of filterCloudCosts: the name and the filter are compared as they are,
\* without strings.ToLower.
filterCloudCostsExact(data, namespace) ==
  IF namespace # ""
    THEN SelectSeq(data, LAMBDA cost :
           Contains(Chars(cost.name), Chars(namespace)))
    ELSE data

\* cloudCostsHandler, "Apply additional local filtering to be safe".
filterCloudCosts(data, namespace) ==
  IF namespace # ""
    THEN SelectSeq(data, LAMBDA cost :
           Contains(ToLower(Chars(cost.name)), ToLower(Chars(namespace))))
    ELSE data

\* Mutant of keepsAllocation: `!allocEnd.After(startTime)` and
\* `!allocStart.Before(endTime)`, a record that only touches the range is dropped.
keepsAllocationStrict(alloc, namespace, start, end) ==
  LET startTime == parseDate(start).t
      endTime == parseDate(end).t
      allocStart == timeParse(alloc.start_time).t
      allocEnd == timeParse(alloc.end_time).t IN
    /\ ~(namespace # "" /\ alloc.namespace # namespace)
    /\ ~(startTime # ZeroTime /\ allocEnd <= startTime)
    /\ ~(endTime # ZeroTime /\ allocStart >= endTime)

\* allocationsHandler, one pass of the loop of "Filter results locally by
\* namespace and time range": the errors of parseDate and time.Parse are
\* dropped, a string that does not parse is the zero time.
keepsAllocation(alloc, namespace, start, end) ==
  LET startTime == parseDate(start).t
      endTime == parseDate(end).t
      allocStart == timeParse(alloc.start_time).t
      allocEnd == timeParse(alloc.end_time).t IN
    /\ ~(namespace # "" /\ alloc.namespace # namespace)
    /\ ~(startTime # ZeroTime /\ allocEnd < startTime)
    /\ ~(endTime # ZeroTime /\ allocStart > endTime)

filterAllocations(data, namespace, start, end) ==
  SelectSeq(data, LAMBDA alloc : keepsAllocation(alloc, namespace, start, end))

\* Mutant of filterAssets: `asset.Provider != provider` and
\* `asset.Region != region` in place of strings.EqualFold.
filterAssetsExact(data, provider, region) ==
  SelectSeq(data, LAMBDA asset :
    /\ ~(provider # "" /\ asset.provider # provider)
    /\ ~(region # "" /\ asset.region # region))

\* assetsHandler, the local filter loop.
filterAssets(data, provider, region) ==
  SelectSeq(data, LAMBDA asset :
    /\ ~(provider # "" /\ ~EqualFold(asset.provider, provider))
    /\ ~(region # "" /\ ~EqualFold(asset.region, region)))

\* ------------------------------------------------------------------ state
VARIABLES
  sessions,   \* the Go map: session id -> slice header of its history
  heap,       \* backing arrays of the history slices, by allocation order
  mapWriter,  \* the goroutine inside a map assignment (hashWriting), or 0
  crashed,    \* the runtime aborted the process (fatal error)
  pc,         \* position of each handler
  req,        \* the request each handler serves
  loc,        \* the handler's local variables
  resp,       \* the response each handler wrote
  nreq,       \* requests received so far
  log,        \* history variable: per key, the queries whose map write completed
  lastEp,     \* history variable: per key, the endpoint of the last completed write
  before,     \* history variable: contents of the store when the request arrived
  source,     \* the records the data source holds, per resource kind
  first,      \* history variable: the first answered request and its result
  cli         \* the CLI client: its position, its request and what it printed

vars ==
  <<sessions, heap, mapWriter, crashed, pc, req, loc, resp, nreq, log, lastEp,
    before, source, first, cli>>

\* -------------------------------------------------------------- Go slices
\* `[]string{}` and the zero slice returned by a missing map key.
EmptySlice == [arr |-> 0, len |-> 0, cap |-> 0]

\* The strings a slice header denotes, read from the heap h.
Contents(h, s) == IF s.len = 0 THEN <<>> ELSE SubSeq(h[s.arr], 1, s.len)

\* The store as a reader sees it: key -> sequence of query texts.
StoreView == [k \in DOMAIN sessions |-> Contents(heap, sessions[k])]

\* Capacity the runtime gives a []string that outgrew a capacity of c.
GrowCap(c) == IF c = 0 THEN 1 ELSE 2 * c

Pad(s, n) == [i \in 1..n |-> IF i <= Len(s) THEN s[i] ELSE ""]

\* `[]string{queryText}`: a fresh array of capacity 1.
Literal(h, q) ==
  [heap |-> Append(h, <<q>>),
   slice |-> [arr |-> Len(h) + 1, len |-> 1, cap |-> 1]]

\* Mutant of AppendSlice: `history = []string{queryText}` in both branches, the
\* existing elements are dropped.
AppendSliceFresh(h, s, v) == Literal(h, v)

\* `append(s, q)`, storing v in the new slot (v = q unless the write is torn):
\* in place when the array has room, else into a fresh array of doubled capacity.
AppendSlice(h, s, v) ==
  IF s.len < s.cap
    THEN [heap |-> [h EXCEPT ![s.arr][s.len + 1] = v],
          slice |-> [s EXCEPT !.len = s.len + 1]]
    ELSE [heap |-> Append(h, Pad(Append(Contents(h, s), v), GrowCap(s.cap))),
          slice |-> [arr |-> Len(h) + 1, len |-> s.len + 1, cap |-> GrowCap(s.cap)]]

\* Values the new slot of `append(s, q)` can end up holding: q, or a torn string
\* when another goroutine has already written that slot of the shared array.
SlotValues(h, s, q) ==
  IF s.len < s.cap /\ h[s.arr][s.len + 1] # "" THEN {q, Torn} ELSE {q}

\* ------------------------------------------------------------------- Init
NoLocals ==
  [namespace |-> "", start |-> "", end |-> "", provider |-> "", region |-> "",
   sessionID |-> "", queryText |-> "", previous |-> "", history |-> EmptySlice,
   existing |-> EmptySlice, ok |-> FALSE, data |-> <<>>,
   \* history fields: the data source was called; the endpoint of the write
   \* that this request's map write followed on its key
   fetched |-> FALSE, prevEp |-> ""]

\* A response: the status, the shape of the body ("text" for http.Error,
\* "object" for an encoded map, here the one with the keys data and meta,
\* "array" for an encoded slice) and the fields of the body.
NoResponse ==
  [status |-> 0, body |-> "", data |-> <<>>, filtersUsed |-> <<>>,
   session_id |-> "", previous_query |-> "", conversation_context |-> <<>>,
   total |-> 0]

\* http.Error(w, ..., code): a text body and the status code.
ErrorResponse(code) == [NoResponse EXCEPT !.status = code, !.body = "text"]

NoFirst == [set |-> FALSE]

\* The CLI before its first prompt: nothing sent, nothing printed.  `error` is
\* the error line printed ("" for none), `header` the line "--- MCP Response
\* ---", `meta` the four lines of meta, `records` the data records printed;
\* `sent` and `status` are history fields: what became of the POST of this
\* turn and the status code of the answer, which the CLI never reads.
NoCli ==
  [pc |-> "prompt", turns |-> 0, endpoint |-> "", request |-> NoRequest,
   error |-> "", header |-> FALSE, meta |-> FALSE, records |-> <<>>,
   sent |-> "", status |-> 0]

Init ==
  /\ sessions = <<>>
  /\ heap = <<>>
  /\ mapWriter = 0
  /\ crashed = FALSE
  /\ pc = [w \in Workers |-> "idle"]
  /\ req = [w \in Workers |-> NoRequest]
  /\ loc = [w \in Workers |-> NoLocals]
  /\ resp = [w \in Workers |-> NoResponse]
  /\ nreq = 0
  /\ log = [k \in Keys \cup {""} |-> <<>>]
  /\ lastEp = [k \in Keys \cup {""} |-> ""]
  /\ before = [w \in Workers |-> <<>>]
  /\ source = MockData
  /\ first = NoFirst
  /\ cli = NoCli

\* ---------------------------------------------------------------- actions
\* net/http accepts a request and starts the handler; the handler declares its
\* locals (sessionID, queryText, previous := "", history := []string{}).
\* The handlers read their filters from the query string of the URL first.
UrlLocals(r) ==
  CASE r.endpoint = "cloudCosts" ->
         [NoLocals EXCEPT !.namespace = Get(r.url, "namespace")]
    [] r.endpoint = "allocations" ->
         [NoLocals EXCEPT !.namespace = Get(r.url, "namespace"),
                          !.start = Get(r.url, "start"),
                          !.end = Get(r.url, "end")]
    [] r.endpoint = "assets" ->
         [NoLocals EXCEPT !.provider = Get(r.url, "provider"),
                          !.region = Get(r.url, "region")]

Receive(w, rs, max) ==
  /\ ~crashed
  /\ pc[w] = "idle"
  /\ nreq < max
  /\ \E r \in rs :
       /\ req' = [req EXCEPT ![w] = r]
       /\ loc' = [loc EXCEPT ![w] = UrlLocals(r)]
  /\ pc' = [pc EXCEPT ![w] = "received"]
  /\ resp' = [resp EXCEPT ![w] = NoResponse]
  /\ nreq' = nreq + 1
  /\ before' = [before EXCEPT ![w] = StoreView]
  /\ UNCHANGED <<sessions, heap, mapWriter, crashed, log, lastEp, source, first>>

\* The locals after the body of a POST was decoded: the filters of the body
\* replace the ones of the URL (in assetsHandler through its fallbacks), then
\* sessionID and queryText are taken from the body.
BodyLocals(l, r) ==
  LET f == r.filters
      m == CASE r.endpoint = "cloudCosts" ->
                  [l EXCEPT !.namespace = f.namespace]
             [] r.endpoint = "allocations" ->
                  [l EXCEPT !.namespace = f.namespace, !.start = f.start,
                            !.end = f.end]
             [] r.endpoint = "assets" ->
                  [l EXCEPT
                     !.provider = IF f.provider # "" THEN f.provider
                                  ELSE IF f.namespace # "" THEN f.namespace
                                  ELSE l.provider,
                     !.region = IF f.region # "" THEN f.region
                                ELSE IF f.start # "" THEN f.start
                                ELSE l.region] IN
    [m EXCEPT !.sessionID = r.sid, !.queryText = r.query]

\* Decode with the test of the session changed to `test`, and the decoding error
\* checked or ignored: the shape the mutants below share with Decode.
DecodeWith(w, checked, test) ==
  /\ pc[w] = "received"
  /\ IF req[w].method # "POST"
       THEN /\ pc' = [pc EXCEPT ![w] = "fetch"]
            /\ UNCHANGED <<loc, resp>>
       ELSE IF checked /\ ~req[w].bodyOK
         THEN /\ resp' = [resp EXCEPT ![w] = ErrorResponse(400)]
              /\ pc' = [pc EXCEPT ![w] = "done"]
              /\ UNCHANGED loc
         ELSE /\ loc' = [loc EXCEPT ![w] = BodyLocals(loc[w], req[w])]
              /\ pc' = [pc EXCEPT ![w] = IF test THEN "lookup" ELSE "fetch"]
              /\ UNCHANGED resp
  /\ UNCHANGED <<sessions, heap, mapWriter, crashed, req, nreq, log, lastEp,
                 before, source, first,
                 cli>>

\* Mutant of Decode: the error of json Decode is ignored and the handler goes on
\* with the zero AgenticQuery.
DecodeUnchecked(w) ==
  DecodeWith(w, FALSE, req[w].sid # "" /\ req[w].query # "")

\* Mutant of Decode: the history is updated under `queryText != ""` alone.
DecodeQueryOnly(w) == DecodeWith(w, TRUE, req[w].query # "")

\* Mutant of Decode: the history is updated under `sessionID != ""` alone.
DecodeSessionOnly(w) == DecodeWith(w, TRUE, req[w].sid # "")

\* `if r.Method == http.MethodPost`: decode the body, answer 400 when it does not
\* decode, else take sessionID and queryText from it and test
\* `sessionID != "" && queryText != ""`.
\* Mutant of Decode: a request that is no POST takes its session and its query
\* text from the URL.
DecodeFromURL(w) ==
  LET sid == Get(req[w].url, "session_id")
      query == Get(req[w].url, "query") IN
    IF req[w].method # "POST" /\ sid # "" /\ query # ""
      THEN /\ pc[w] = "received"
           /\ loc' = [loc EXCEPT ![w].sessionID = sid, ![w].queryText = query]
           /\ pc' = [pc EXCEPT ![w] = "lookup"]
           /\ UNCHANGED <<sessions, heap, mapWriter, crashed, req, resp, nreq,
                          log, lastEp, before, source, first,
                 cli>>
      ELSE DecodeWith(w, TRUE, req[w].sid # "" /\ req[w].query # "")

Decode(w) ==
  /\ pc[w] = "received"
  /\ IF req[w].method # "POST"
       THEN /\ pc' = [pc EXCEPT ![w] = "fetch"]
            /\ UNCHANGED <<loc, resp>>
       ELSE IF ~req[w].bodyOK
         THEN /\ resp' = [resp EXCEPT ![w] = ErrorResponse(400)]
              /\ pc' = [pc EXCEPT ![w] = "done"]
              /\ UNCHANGED loc
         ELSE /\ loc' = [loc EXCEPT ![w] = BodyLocals(loc[w], req[w])]
              /\ pc' = [pc EXCEPT ![w] =
                          IF req[w].sid # "" /\ req[w].query # ""
                            THEN "lookup" ELSE "fetch"]
              /\ UNCHANGED resp
  /\ UNCHANGED <<sessions, heap, mapWriter, crashed, req, nreq, log, lastEp,
                 before, source, first,
                 cli>>

\* Mutant of MapAccess: a store per endpoint, a key written through another
\* endpoint is not found.
MapAccessOwnEndpoint(w) ==
  /\ pc[w] = "lookup"
  /\ LET k == loc[w].sessionID
         found == k \in DOMAIN sessions /\ lastEp[k] = req[w].endpoint IN
       loc' = [loc EXCEPT
                 ![w].ok = found,
                 ![w].existing = IF found THEN sessions[k] ELSE EmptySlice]
  /\ pc' = [pc EXCEPT ![w] = "append"]
  /\ UNCHANGED <<sessions, heap, mapWriter, crashed, req, resp, nreq, log,
                 lastEp, before, source, first,
                 cli>>

\* `existing, ok := sessions[sessionID]`
MapAccess(w) ==
  /\ pc[w] = "lookup"
  /\ LET k == loc[w].sessionID IN
       loc' = [loc EXCEPT
                 ![w].ok = (k \in DOMAIN sessions),
                 ![w].existing = IF k \in DOMAIN sessions
                                   THEN sessions[k] ELSE EmptySlice]
  /\ pc' = [pc EXCEPT ![w] = "append"]
  /\ UNCHANGED <<sessions, heap, mapWriter, crashed, req, resp, nreq, log,
                 lastEp, before, source, first,
                 cli>>

\* `if ok && len(existing) > 0 { previous = existing[len(existing)-1];
\*  history = append(existing, queryText) } else { history = []string{queryText} }`
HistoryAppend(w) ==
  /\ pc[w] = "append"
  /\ LET e == loc[w].existing
         q == loc[w].queryText IN
       IF loc[w].ok /\ e.len > 0
         THEN \E v \in SlotValues(heap, e, q) :
                LET a == AppendSlice(heap, e, v) IN
                  /\ heap' = a.heap
                  /\ loc' = [loc EXCEPT ![w].previous = heap[e.arr][e.len],
                                        ![w].history = a.slice]
         ELSE LET a == Literal(heap, q) IN
                /\ heap' = a.heap
                /\ loc' = [loc EXCEPT ![w].history = a.slice]
  /\ pc' = [pc EXCEPT ![w] = "assign"]
  /\ UNCHANGED <<sessions, mapWriter, crashed, req, resp, nreq, log,
                 lastEp, before, source, first,
                 cli>>

\* `sessions[sessionID] = history`, entry of the runtime's map assignment: the
\* map is marked as being written.
MapAssignBegin(w) ==
  /\ pc[w] = "assign"
  /\ mapWriter' = w
  /\ pc' = [pc EXCEPT ![w] = "assigning"]
  /\ UNCHANGED <<sessions, heap, crashed, req, loc, resp, nreq, log,
                 lastEp, before, source, first,
                 cli>>

\* `sessions[sessionID] = history`, the store itself and the end of the write.
MapAssignEnd(w) ==
  /\ pc[w] = "assigning"
  /\ sessions' = [k \in DOMAIN sessions \cup {loc[w].sessionID} |->
                    IF k = loc[w].sessionID THEN loc[w].history ELSE sessions[k]]
  /\ mapWriter' = IF mapWriter = w THEN 0 ELSE mapWriter
  /\ log' = [log EXCEPT ![loc[w].sessionID] = Append(@, loc[w].queryText)]
  /\ lastEp' = [lastEp EXCEPT ![loc[w].sessionID] = req[w].endpoint]
  /\ loc' = [loc EXCEPT ![w].prevEp = lastEp[loc[w].sessionID]]
  /\ pc' = [pc EXCEPT ![w] = "fetch"]
  /\ UNCHANGED <<heap, crashed, req, resp, nreq, before, source, first,
                 cli>>

\* A map access that meets another goroutine's unfinished map write: the runtime
\* may detect it ("fatal error: concurrent map writes" / "concurrent map read
\* and map write") and abort the process, which ends every handler and releases
\* the store.  The detection is best effort, so the ordinary steps stay enabled.
Fatal(w) ==
  /\ \/ pc[w] \in {"lookup", "assign"} /\ mapWriter # 0
     \/ pc[w] = "assigning" /\ mapWriter # w
  /\ crashed' = TRUE
  /\ sessions' = <<>>
  /\ heap' = <<>>
  /\ mapWriter' = 0
  /\ pc' = [v \in Workers |-> "dead"]
  /\ req' = [v \in Workers |-> NoRequest]
  /\ loc' = [v \in Workers |-> NoLocals]
  /\ resp' = [v \in Workers |-> NoResponse]
  /\ before' = [v \in Workers |-> <<>>]
  /\ UNCHANGED <<nreq, log, lastEp, source, first,
                 cli>>

\* `data, url, err := get*WithFilters(...)`; on an error the handler answers 500.
FetchURL(l, endpoint) ==
  CASE endpoint = "cloudCosts" -> getCloudCostsWithFilters(l.namespace)
    [] endpoint = "allocations" ->
         getAllocationsWithFilters(l.namespace, l.start, l.end)
    [] endpoint = "assets" -> getAssetsWithFilters(l.provider, l.region)

Fetch(w) ==
  /\ pc[w] = "fetch"
  /\ \E o \in FetchOutcomes :
       IF o = "ok"
         THEN /\ loc' = [loc EXCEPT
                           ![w].fetched = TRUE,
                           ![w].data = MockServer(source, req[w].endpoint,
                                         FetchURL(loc[w], req[w].endpoint))]
              /\ pc' = [pc EXCEPT ![w] = "respond"]
              /\ UNCHANGED resp
         ELSE /\ loc' = [loc EXCEPT ![w].fetched = TRUE]
              /\ resp' = [resp EXCEPT ![w] = ErrorResponse(500)]
              /\ pc' = [pc EXCEPT ![w] = "done"]
  /\ UNCHANGED <<sessions, heap, mapWriter, crashed, req, nreq, log, lastEp,
                 before, source, first,
                 cli>>

\* The local filter pass and the envelope: json.NewEncoder(w).Encode(resp) reads
\* the elements of `history` from its backing array at this moment.
\* Mutant of Filtered: a filter the request leaves empty is filled in from the
\* previous query of the session.
FilteredCarryOver(l, endpoint) ==
  LET namespace == IF l.namespace = "" THEN l.previous ELSE l.namespace
      provider == IF l.provider = "" THEN l.previous ELSE l.provider IN
    CASE endpoint = "cloudCosts" -> filterCloudCosts(l.data, namespace)
      [] endpoint = "allocations" ->
           filterAllocations(l.data, namespace, l.start, l.end)
      [] endpoint = "assets" -> filterAssets(l.data, provider, l.region)

\* The local filter pass of a handler, on its locals.
Filtered(l, endpoint) ==
  CASE endpoint = "cloudCosts" -> filterCloudCosts(l.data, l.namespace)
    [] endpoint = "allocations" ->
         filterAllocations(l.data, l.namespace, l.start, l.end)
    [] endpoint = "assets" -> filterAssets(l.data, l.provider, l.region)

\* Mutant of FiltersUsed: the values of the map literal are paired with the
\* wrong keys.
FiltersUsedSwapped(l, endpoint) ==
  CASE endpoint = "cloudCosts" -> [namespace |-> l.namespace]
    [] endpoint = "allocations" ->
         [namespace |-> l.namespace, start |-> l.end, end |-> l.start]
    [] endpoint = "assets" -> [provider |-> l.region, region |-> l.provider]

\* meta.filtersUsed, a map[string]string with the keys of the resource kind.
FiltersUsed(l, endpoint) ==
  CASE endpoint = "cloudCosts" -> [namespace |-> l.namespace]
    [] endpoint = "allocations" ->
         [namespace |-> l.namespace, start |-> l.start, end |-> l.end]
    [] endpoint = "assets" -> [provider |-> l.provider, region |-> l.region]

Respond(w) ==
  /\ pc[w] = "respond"
  /\ LET filtered == Filtered(loc[w], req[w].endpoint) IN
       resp' = [resp EXCEPT ![w] =
                  [status |-> 200,
                   body |-> "object",
                   data |-> filtered,
                   filtersUsed |-> FiltersUsed(loc[w], req[w].endpoint),
                   session_id |-> loc[w].sessionID,
                   previous_query |-> loc[w].previous,
                   conversation_context |-> Contents(heap, loc[w].history),
                   total |-> Len(filtered)]]
  /\ pc' = [pc EXCEPT ![w] = "done"]
  /\ UNCHANGED <<sessions, heap, mapWriter, crashed, req, loc, nreq, log,
                 lastEp, before, source, cli>>

\* The handler returns: its goroutine ends and its locals are gone.
Return(w) ==
  /\ pc[w] = "done"
  /\ pc' = [pc EXCEPT ![w] = "idle"]
  /\ req' = [req EXCEPT ![w] = NoRequest]
  /\ loc' = [loc EXCEPT ![w] = NoLocals]
  /\ resp' = [resp EXCEPT ![w] = NoResponse]
  /\ before' = [before EXCEPT ![w] = <<>>]
  /\ UNCHANGED <<sessions, heap, mapWriter, crashed, nreq, log, lastEp, source, first,
                 cli>>

\* Scheduling.  A step that reads and writes nothing shared (decoding the body,
\* waiting for the data source, encoding a response without history, returning)
\* commutes with every step of the other handlers, so it is taken before the
\* other handlers move on; the steps that touch the map or a backing array
\* interleave in every order.
Private(w) ==
  \/ pc[w] \in {"received", "fetch", "done"}
  \/ pc[w] = "respond" /\ loc[w].history.len = 0

Settled == \A v \in Workers : ~Private(v)

Quiet(w) == \A v \in Workers \ {w} : pc[v] = "idle"

\* A request may arrive while another is in flight only inside the race window.
MayOverlap(w) == Quiet(w) \/ nreq > MaxRequests - RaceWindow

\* Endpoint requested in the runs with overlapping requests.  The three handlers
\* run the same statements on `sessions` (lines 206-214, 279-287, 365-373), so
\* the interleavings of one of them are the interleavings of any two.
RaceEndpoints == {"allocations"}
RaceRequests == {r \in Requests : r.endpoint \in RaceEndpoints}

\* Handlers of concurrent connections: any interleaving of their steps.
Next ==
  \E w \in Workers :
    \/ /\ Settled /\ MayOverlap(w) /\ Receive(w, RaceRequests, MaxRequests)
       /\ UNCHANGED cli
    \/ Decode(w)
    \/ Settled /\ MapAccess(w)
    \/ Settled /\ HistoryAppend(w)
    \/ Settled /\ MapAssignBegin(w)
    \/ Settled /\ MapAssignEnd(w)
    \/ Settled /\ Fatal(w)
    \/ Fetch(w)
    \/ (Settled \/ Private(w)) /\ Respond(w) /\ UNCHANGED first
    \/ Return(w)

Spec == Init /\ [][Next]_vars

\* The steps of the handler w of a request in flight.  net/http runs each
\* handler in a goroutine of its own and the Go scheduler runs every runnable
\* goroutine; the data source answers or refuses each fetch.  The abort of the
\* process by the runtime is nothing the handler is owed.
Step(w) ==
  \/ Decode(w)
  \/ Settled /\ MapAccess(w)
  \/ Settled /\ HistoryAppend(w)
  \/ Settled /\ MapAssignBegin(w)
  \/ Settled /\ MapAssignEnd(w)
  \/ Fetch(w)
  \/ (Settled \/ Private(w)) /\ Respond(w) /\ UNCHANGED first
  \/ Return(w)

Fair == \A w \in Workers : WF_vars(Step(w))

\* Concurrent handlers, each of which keeps running while it can.
SpecFair == Init /\ [][Next]_vars /\ Fair

\* Requests served one after another (a single client that waits for each
\* response): a handler steps only while no other handler is in flight.
NextSeq ==
  \E w \in Workers :
    \/ Quiet(w) /\ Receive(w, Requests, MaxSeqRequests) /\ UNCHANGED cli
    \/ Quiet(w) /\ Decode(w)
    \/ Quiet(w) /\ MapAccess(w)
    \/ Quiet(w) /\ HistoryAppend(w)
    \/ Quiet(w) /\ MapAssignBegin(w)
    \/ Quiet(w) /\ MapAssignEnd(w)
    \/ Quiet(w) /\ Fetch(w)
    \/ Quiet(w) /\ Respond(w) /\ UNCHANGED first
    \/ Quiet(w) /\ Return(w)

SpecSeq == Init /\ [][NextSeq]_vars

\* ------------------------------------------------- runs over the filters
\* The filter values a client sends, per resource kind.  A structured request
\* of these runs carries a session and a query text, so that the history of its
\* session differs between a request and its repetition.
CloudCostFilters ==
  {[NoFilters EXCEPT !.namespace = n] : n \in {"", "PROD", "vm"}}

AllocationFilters ==
  {[NoFilters EXCEPT !.namespace = n, !.start = a, !.end = b] :
     n \in {"", "prod"}, a \in {"", T1, T3, BadTime}, b \in {"", T2, BadTime}}
  \cup
  {[NoFilters EXCEPT !.namespace = "PROD"]}

AssetFilters ==
  {[NoFilters EXCEPT !.provider = p, !.region = g] :
     p \in {"", "aws"}, g \in {"", "US-WEST-2"}}

\* A body for /assets can also carry the fields of the other kinds.
AssetBodies ==
  {[f EXCEPT !.namespace = n, !.start = a, !.end = b] :
     f \in AssetFilters, n \in {"", "azure"}, a \in {"", "centralindia"},
     b \in {"", T1}}

FiltersOf(e) ==
  CASE e = "cloudCosts" -> CloudCostFilters
    [] e = "allocations" -> AllocationFilters
    [] e = "assets" -> AssetFilters

BodiesOf(e) == IF e = "assets" THEN AssetBodies ELSE FiltersOf(e)

\* The query string a client puts on the URL of a POST, if any.
PostParams(e) ==
  CASE e = "cloudCosts" -> Params([namespace |-> "dev"])
    [] e = "allocations" -> Params([namespace |-> "dev", start |-> T3, end |-> T1])
    [] e = "assets" -> Params([provider |-> "azure", region |-> "centralindia"])

\* URL parameters named like the fields of a structured request,
\* `?session_id=s1&query=Q1`: no handler reads them.
SessionParams == [session_id |-> "s1", query |-> "Q1"]

FilterRequests ==
  UNION {
    {[endpoint |-> e, method |-> "GET", url |-> u, bodyOK |-> TRUE,
      filters |-> NoFilters, sid |-> "", query |-> ""] :
       u \in {Params(f) : f \in FiltersOf(e)} \cup {SessionParams}}
    \cup
    {[endpoint |-> e, method |-> "POST", url |-> u, bodyOK |-> FALSE,
      filters |-> NoFilters, sid |-> "", query |-> ""] :
       u \in {NoParams, PostParams(e)}}
    \cup
    {[endpoint |-> e, method |-> "POST", url |-> u, bodyOK |-> TRUE,
      filters |-> f, sid |-> "s1", query |-> "Q1"] :
       u \in {NoParams, PostParams(e)}, f \in BodiesOf(e)}
    : e \in Endpoints}

\* The sequences of 1..n elements of S.
SeqsUpTo(S, n) == UNION {[1..k -> S] : k \in 1..n}

\* A data source that holds records of one resource kind.
Sources ==
  {[cloudCosts |-> d, allocations |-> <<>>, assets |-> <<>>] :
     d \in SeqsUpTo(CloudCostRecords, MaxRecords)}
  \cup
  {[cloudCosts |-> <<>>, allocations |-> d, assets |-> <<>>] :
     d \in SeqsUpTo(AllocationRecords, MaxRecords)}
  \cup
  {[cloudCosts |-> <<>>, allocations |-> <<>>, assets |-> d] :
     d \in SeqsUpTo(AssetRecords, MaxRecords)}

InitFilter ==
  /\ sessions = <<>>
  /\ heap = <<>>
  /\ mapWriter = 0
  /\ crashed = FALSE
  /\ pc = [w \in Workers |-> "idle"]
  /\ req = [w \in Workers |-> NoRequest]
  /\ loc = [w \in Workers |-> NoLocals]
  /\ resp = [w \in Workers |-> NoResponse]
  /\ nreq = 0
  /\ log = [k \in Keys \cup {""} |-> <<>>]
  /\ lastEp = [k \in Keys \cup {""} |-> ""]
  /\ before = [w \in Workers |-> <<>>]
  /\ source \in Sources
  /\ first = NoFirst
  /\ cli = NoCli

\* The request r has the method, the URL and the filters of the request f.
SameInputs(r, f) ==
  /\ r.endpoint = f.endpoint
  /\ r.method = f.method
  /\ r.url = f.url
  /\ r.bodyOK
  /\ r.filters = f.filters

\* The requests of a run over the filters: to the resource kind the data source
\* has records of; once a request has been answered, the client repeats it.
NextRequests ==
  {r \in FilterRequests :
     /\ source[r.endpoint] # <<>>
     /\ first.set => SameInputs(r, first)}

\* History: the first answered request of a run and what it was answered.
Observe(w) ==
  first' = IF first.set THEN first
           ELSE [set |-> TRUE, endpoint |-> req[w].endpoint,
                 method |-> req[w].method, url |-> req[w].url,
                 filters |-> req[w].filters,
                 filtersUsed |-> resp'[w].filtersUsed,
                 data |-> resp'[w].data, total |-> resp'[w].total]

\* The goroutine that serves the requests of a run over the filters.
Handler == {1}

NextFilter ==
  \E w \in Handler :
    \/ Receive(w, NextRequests, MaxFilterRequests) /\ UNCHANGED cli
    \/ Decode(w)
    \/ MapAccess(w)
    \/ HistoryAppend(w)
    \/ MapAssignBegin(w)
    \/ MapAssignEnd(w)
    \/ Fetch(w)
    \/ Respond(w) /\ Observe(w)
    \/ Return(w)

SpecFilter == InitFilter /\ [][NextFilter]_vars

\* ------------------------------------------------------- the CLI client
\* The interactive client of unnamed/part_001: a loop that prompts for an
\* endpoint, a query text and the filters of the endpoint, POSTs them to the
\* gateway as a structured request and prints the answer.

\* `sessionID := "cli-demo-001"`
CliSession == "cli-demo-001"

\* What the user types at the prompts: an endpoint ("" stands for allocations,
\* "pods" is a path the gateway does not serve), a query text, the filters.
CliEndpoints == Endpoints \cup {"", "pods"}
CliQueries == {"Q1", "", "quit", "EXIT"}

CliFilters(endpoint) ==
  CASE endpoint = "allocations" ->
         {NoFilters, [NoFilters EXCEPT !.namespace = "prod", !.start = T1]}
    [] endpoint = "cloudCosts" -> {NoFilters, [NoFilters EXCEPT !.namespace = "dev"]}
    [] endpoint = "assets" -> {NoFilters, [NoFilters EXCEPT !.provider = "aws"]}
    [] OTHER -> {NoFilters}

GatewayVars ==
  <<sessions, heap, mapWriter, crashed, pc, req, loc, resp, nreq, log, lastEp,
    before, source, first>>

InitCLI ==
  /\ sessions = <<>>
  /\ heap = <<>>
  /\ mapWriter = 0
  /\ crashed = FALSE
  /\ pc = [w \in Workers |-> "idle"]
  /\ req = [w \in Workers |-> NoRequest]
  /\ loc = [w \in Workers |-> NoLocals]
  /\ resp = [w \in Workers |-> NoResponse]
  /\ nreq = 0
  /\ log = [k \in {CliSession, ""} |-> <<>>]
  /\ lastEp = [k \in {CliSession, ""} |-> ""]
  /\ before = [w \in Workers |-> <<>>]
  /\ source = MockData
  /\ first = NoFirst
  /\ cli = NoCli

\* Steps 1 to 4 of the loop: the prompts; `quit` or `exit` in any case ends the
\* loop, anything else becomes the AgenticQuery to send.
CliPrompt ==
  /\ cli.pc = "prompt"
  /\ cli.turns < MaxCliTurns
  /\ \E typed \in CliEndpoints, query \in CliQueries :
       LET endpoint == IF typed = "" THEN "allocations" ELSE typed IN
         \E f \in CliFilters(endpoint) :
           cli' = IF ToLower(Chars(query)) \in {Chars("quit"), Chars("exit")}
                    THEN [NoCli EXCEPT !.pc = "exited", !.turns = cli.turns + 1]
                    ELSE [NoCli EXCEPT
                            !.pc = "post",
                            !.turns = cli.turns + 1,
                            !.endpoint = endpoint,
                            !.request =
                              [endpoint |-> endpoint, method |-> "POST",
                               url |-> NoParams, bodyOK |-> TRUE,
                               filters |-> f, sid |-> CliSession,
                               query |-> query]]
  /\ UNCHANGED GatewayVars

\* Step 5, `resp, err := http.Post(...)` with err != nil: the gateway cannot be
\* reached; "Error sending request" and `continue`.
CliPostFails ==
  /\ cli.pc = "post"
  /\ cli' = [cli EXCEPT !.pc = "prompt", !.error = "Error sending request",
                        !.sent = "failed"]
  /\ UNCHANGED GatewayVars

\* Step 5 when the gateway is reached: a handler receives the request.
CliPost(w) ==
  /\ cli.pc = "post"
  /\ cli.endpoint \in Endpoints
  /\ Receive(w, {cli.request}, MaxCliTurns)
  /\ cli' = [cli EXCEPT !.pc = "wait", !.sent = "delivered"]

\* Mutant of Show: the error of the JSON decoding is ignored.
ShowUnchecked(c, reply) ==
  [c EXCEPT !.pc = "prompt", !.header = TRUE,
            !.meta = (reply.body = "object"), !.records = reply.data]

\* Steps 6 to 8: decode the body into a map; "Error decoding response" and
\* `continue` for a body that is no JSON object, else the header, the lines of
\* meta and the data records (or "(No data records returned.)").
Show(c, reply) ==
  IF reply.body # "object"
    THEN [c EXCEPT !.pc = "prompt", !.error = "Error decoding response"]
    ELSE [c EXCEPT !.pc = "prompt", !.header = TRUE, !.meta = TRUE,
                   !.records = reply.data]

\* The gateway registers no handler for the path: the ServeMux of net/http
\* answers 404 with a text body.
CliNotFound ==
  /\ cli.pc = "post"
  /\ cli.endpoint \notin Endpoints
  /\ cli' = [Show(cli, ErrorResponse(404)) EXCEPT
               !.sent = "delivered", !.status = 404]
  /\ UNCHANGED GatewayVars

\* The CLI reads what the handler wrote.
CliAnswer(w) ==
  /\ cli.pc = "wait"
  /\ pc[w] = "done"
  /\ cli' = [Show(cli, resp[w]) EXCEPT !.status = resp[w].status]
  /\ UNCHANGED GatewayVars

\* The CLI is the only client of the gateway: one request at a time.
NextCLI ==
  \/ CliPrompt
  \/ CliPostFails
  \/ CliNotFound
  \/ \E w \in Handler :
       \/ CliPost(w)
       \/ Decode(w)
       \/ MapAccess(w)
       \/ HistoryAppend(w)
       \/ MapAssignBegin(w)
       \/ MapAssignEnd(w)
       \/ Fetch(w)
       \/ Respond(w) /\ UNCHANGED first
       \/ CliAnswer(w)
       \/ cli.pc # "wait" /\ Return(w)

SpecCLI == InitCLI /\ [][NextCLI]_vars

\* ----------------------------------------------------------------- claims
\* A valid structured request: a POST whose body decodes and carries a session
\* identifier and a query text.
Valid(w) ==
  /\ req[w].method = "POST"
  /\ req[w].bodyOK
  /\ req[w].sid # ""
  /\ req[w].query # ""

\* The handler has written its response and has not returned yet.
Done(w) == pc[w] = "done"
Answered(w) == Done(w) /\ resp[w].status = 200

IsPrefix(s, t) == Len(s) <= Len(t) /\ SubSeq(t, 1, Len(s)) = s

Last(s) == s[Len(s)]
Front(s) == SubSeq(s, 1, Len(s) - 1)

\* C1: with requests served one after another, the (n+1)-th valid request on a
\* session key reports as previous_query the n-th query written under that key
\* ("" when n = 0) and as conversation_context the n earlier queries in order
\* followed by its own query.
C1_SequentialContext ==
  \A w \in Workers :
    Answered(w) /\ Valid(w) =>
      LET written == log[req[w].sid]
          earlier == Front(written) IN
        /\ written # <<>>
        /\ Last(written) = req[w].query
        /\ resp[w].conversation_context = Append(earlier, req[w].query)
        /\ resp[w].previous_query = IF earlier = <<>> THEN "" ELSE Last(earlier)
        /\ resp[w].session_id = req[w].sid

\* The fourth request on a key (appended in place, into the array of capacity 4)
\* has been answered.
C1_Witness ==
  \E w \in Workers :
    /\ Answered(w) /\ Valid(w)
    /\ Len(resp[w].conversation_context) = 4
    /\ resp[w].previous_query = resp[w].conversation_context[3]
    /\ resp[w].conversation_context[1] # resp[w].conversation_context[2]

\* The stored history of key k as a reader sees it, <<>> for an unknown key.
Stored(k) == IF k \in DOMAIN sessions THEN Contents(heap, sessions[k]) ELSE <<>>

\* The handler is between its test of the session and the end of its map write.
InHistoryStep(w) == pc[w] \in {"lookup", "append", "assign", "assigning"}

\* C2: no lost update: while the process runs, once no request is inside its
\* history step on a key, the stored history of that key holds one element per
\* valid request that wrote to it (two concurrent requests make it grow by 2).
C2_NoLostUpdate ==
  ~crashed =>
    \A k \in Keys :
      (\A w \in Workers : ~(InHistoryStep(w) /\ loc[w].sessionID = k)) =>
        Len(Stored(k)) = Len(log[k])

\* C3: the read of the existing history and the write of the extended history
\* are one atomic step: between a request's map read and the end of its map
\* write the entry of its key is still the one it read.
C3_AtomicAppend ==
  \A w \in Workers :
    pc[w] \in {"append", "assign", "assigning"} =>
      LET k == loc[w].sessionID IN
        IF loc[w].ok
          THEN k \in DOMAIN sessions /\ sessions[k] = loc[w].existing
          ELSE k \notin DOMAIN sessions

\* C4: append-only history: in every step of a running process every stored
\* history stays stored and is a prefix of what is stored after the step.
C4_AppendOnly ==
  [][~crashed' =>
       \A k \in DOMAIN sessions :
         /\ k \in DOMAIN sessions'
         /\ IsPrefix(Contents(heap, sessions[k]), Contents(heap', sessions'[k]))]_vars

\* The requests in flight carry pairwise distinct session keys.
DistinctKeysInFlight ==
  \A v, w \in Workers :
    v # w /\ loc[v].sessionID # "" /\ loc[w].sessionID # ""
      => loc[v].sessionID # loc[w].sessionID

\* C5: session isolation: with requests on distinct keys in flight, the stored
\* history of a key changes only in a step (append or map write) of a request
\* that carries this key; a request on another key leaves it as it is.
C5_Isolation ==
  [][DistinctKeysInFlight =>
       \A k \in DOMAIN sessions :
         (k \notin DOMAIN sessions'
            \/ Contents(heap', sessions'[k]) # Contents(heap, sessions[k]))
         => \E w \in Workers :
              /\ loc[w].sessionID = k
              /\ pc[w] \in {"append", "assigning"}
              /\ pc'[w] \in {"assign", "fetch"}]_vars

\* C6: a request whose fetch fails ends with a server error and leaves the
\* store as it was when the request arrived.
C6_NoMutationOnFailure ==
  \A w \in Workers :
    Done(w) /\ resp[w].status = 500 => StoreView = before[w]

\* A POST whose body does not decode.
BadBody(w) == req[w].method = "POST" /\ ~req[w].bodyOK

\* C7: a POST whose body fails to decode is answered 400 (and only such a
\* request is), without a call of the data source and with the store as it was
\* when the request arrived.
C7_BadRequestNoEffect ==
  \A w \in Workers :
    /\ Done(w) /\ BadBody(w) =>
         /\ resp[w].status = 400
         /\ ~loc[w].fetched
         /\ StoreView = before[w]
    /\ Done(w) /\ resp[w].status = 400 => BadBody(w)

\* A malformed POST has been answered while the store holds a history.
C7_Witness ==
  \E w \in Workers :
    /\ Done(w) /\ BadBody(w)
    /\ resp[w].status = 400
    /\ \E k \in DOMAIN sessions : Len(Stored(k)) >= 2

\* C8: a request without session_id (a GET, or a POST whose body has none) adds
\* no key to the store, "" is never a stored key, and its response reports an
\* empty previous_query and an empty conversation_context.
C8_NoSessionNoHistory ==
  /\ "" \notin DOMAIN sessions
  /\ \A w \in Workers :
       Done(w) /\ req[w].sid = "" =>
         /\ DOMAIN sessions = DOMAIN before[w]
         /\ StoreView = before[w]
         /\ resp[w].status = 200 =>
              /\ resp[w].session_id = ""
              /\ resp[w].previous_query = ""
              /\ resp[w].conversation_context = <<>>

\* A POST with a query text but no session_id has been answered while the store
\* holds histories.
C8_Witness ==
  \E w \in Workers :
    /\ Answered(w)
    /\ req[w].method = "POST" /\ req[w].bodyOK
    /\ req[w].sid = "" /\ req[w].query # ""
    /\ DOMAIN sessions = Keys

\* A structured request with a session_id and no query text.
EmptyQuery(w) ==
  /\ req[w].method = "POST" /\ req[w].bodyOK
  /\ req[w].sid # "" /\ req[w].query = ""

\* C9: a structured request with a session_id and an empty query text leaves the
\* store as it was and reports an empty previous_query and an empty
\* conversation_context, whatever history its session has.
C9_EmptyQueryBypass ==
  \A w \in Workers :
    Done(w) /\ EmptyQuery(w) =>
      /\ StoreView = before[w]
      /\ resp[w].status = 200 =>
           /\ resp[w].previous_query = ""
           /\ resp[w].conversation_context = <<>>

\* Such a request has been answered for a session that has a history.
C9_Witness ==
  \E w \in Workers :
    /\ Answered(w) /\ EmptyQuery(w)
    /\ req[w].sid \in DOMAIN sessions
    /\ Len(Stored(req[w].sid)) >= 2

\* C10: cross-endpoint context: a valid request on a key whose last query was
\* written through another endpoint reports that query as previous_query and
\* the history stored by the other endpoint, followed by its own query, as
\* conversation_context.
C10_CrossEndpoint ==
  \A w \in Workers :
    Answered(w) /\ Valid(w) /\ loc[w].prevEp \notin {"", req[w].endpoint} =>
      /\ req[w].sid \in DOMAIN before[w]
      /\ before[w][req[w].sid] # <<>>
      /\ resp[w].previous_query = Last(before[w][req[w].sid])
      /\ resp[w].conversation_context = Append(before[w][req[w].sid], req[w].query)

\* A request to /assets has been answered on a session whose last query was
\* written by /allocations and that held at least two queries.
C10_Witness ==
  \E w \in Workers :
    /\ Answered(w) /\ Valid(w)
    /\ req[w].endpoint = "assets"
    /\ loc[w].prevEp = "allocations"
    /\ Len(resp[w].conversation_context) >= 3
    /\ resp[w].previous_query # req[w].query

\* A structured request: a POST whose body decodes.
Structured(w) == req[w].method = "POST" /\ req[w].bodyOK

\* C11: the structured form fully overrides the simple form: for an answered
\* POST that carries URL parameters and a body, on every endpoint every
\* effective filter field is the value of that field in the filters of the body
\* ("" when the body omits it), never the value of a URL parameter.
C11_StructuredOverrides ==
  \A w \in Workers :
    Answered(w) /\ Structured(w) /\ req[w].url # NoParams =>
      \A n \in DOMAIN resp[w].filtersUsed :
        resp[w].filtersUsed[n] = req[w].filters[n]

\* The records of the source that the asset filters (provider, region) keep:
\* those that equal each non-empty filter up to the case of the letters.
SameLetter(a, b) ==
  \/ a = b
  \/ \E j \in 1..Len(UpperCase) : {a, b} = {UpperCase[j], LowerCase[j]}

SameIgnoringCase(s, t) ==
  LET a == Chars(s)
      b == Chars(t) IN
    /\ Len(a) = Len(b)
    /\ \A i \in 1..Len(a) : SameLetter(a[i], b[i])

AssetsKept(src, provider, region) ==
  SelectSeq(src, LAMBDA asset :
    /\ provider = "" \/ SameIgnoringCase(asset.provider, provider)
    /\ region = "" \/ SameIgnoringCase(asset.region, region))

\* C12: filters are kind-specific: for an answered structured query to /assets
\* (without URL parameters) the effective provider and region are exactly
\* filters.provider and filters.region of the body, and the assets returned are
\* the ones these two select: namespace, start and end have no influence.
C12_KindSpecificFilters ==
  \A w \in Workers :
    /\ Answered(w) /\ Structured(w)
    /\ req[w].endpoint = "assets" /\ req[w].url = NoParams
    => /\ resp[w].filtersUsed.provider = req[w].filters.provider
       /\ resp[w].filtersUsed.region = req[w].filters.region
       /\ resp[w].data =
            AssetsKept(source.assets, req[w].filters.provider,
                       req[w].filters.region)

\* C13: no history-based filter carry-over: a request with the method, URL and
\* filters of the first answered request of the run is answered the same
\* filtersUsed, data and total, whatever history its session has by then.
C13_NoCarryOver ==
  \A w \in Workers :
    Answered(w) /\ first.set /\ SameInputs(req[w], first) =>
      /\ resp[w].filtersUsed = first.filtersUsed
      /\ resp[w].data = first.data
      /\ resp[w].total = first.total

\* A repeated request has been answered with a previous_query (its session had
\* no history when the request was first answered) and with records.
C13_Witness ==
  \E w \in Workers :
    /\ Answered(w) /\ first.set /\ SameInputs(req[w], first)
    /\ resp[w].previous_query # ""
    /\ Len(resp[w].conversation_context) = 2
    /\ 0 < resp[w].total /\ resp[w].total < Len(source[req[w].endpoint])

\* The positions of a request in its handler: received, parsed (inside the
\* history step), history and filters resolved (about to fetch), data fetched
\* (about to filter and respond), ended.
Phases ==
  {"idle", "received", "lookup", "append", "assign", "assigning", "fetch",
   "respond", "done"}

\* C14: per-request state machine: a request only ever stands at a position of
\* the machine, and it ends in one of three ways: at the parse step with a client
\* error (a body that does not decode, the data source not called), at the
\* fetch step with a server error, or responded with the {data, meta} envelope;
\* no other step fails.
C14_StateMachine ==
  \A w \in Workers :
    /\ pc[w] \in Phases
    /\ Done(w) =>
         \/ /\ resp[w].status = 400 /\ resp[w].body = "text"
            /\ BadBody(w) /\ ~loc[w].fetched
         \/ /\ resp[w].status = 500 /\ resp[w].body = "text"
            /\ ~BadBody(w) /\ loc[w].fetched
         \/ /\ resp[w].status = 200 /\ resp[w].body = "object"
            /\ ~BadBody(w) /\ loc[w].fetched
            /\ resp[w].total = Len(resp[w].data)

\* The request is answered by the handler of the given endpoint.
AnsweredBy(w, e) == Answered(w) /\ req[w].endpoint = e

\* C15: the local re-filter pass uses the predicate of the data source: the
\* gateway's filter keeps a record of the source exactly when the data source's
\* handler keeps it for the same filters, so re-filtering the answer of the data
\* source removes no record.
C15_ReFilterEquivalence ==
  \A w \in Workers :
    Answered(w) =>
      LET e == req[w].endpoint IN
        /\ resp[w].data = loc[w].data
        /\ \A i \in 1..Len(source[e]) :
             LET one == <<source[e][i]>>
                 src == [source EXCEPT ![e] = one] IN
               Filtered([loc[w] EXCEPT !.data = one], e)
                 = MockServer(src, e, FetchURL(loc[w], e))

\* A timestamp that is well-formed RFC3339.
WellFormed(s) == s \in DOMAIN Instants

\* The time-range check excludes a record for a filter only on the evidence of
\* two well-formed timestamps: the record ends before the start of the filter,
\* or it starts after the end of the filter.
EndsBefore(alloc, start) ==
  /\ WellFormed(start) /\ WellFormed(alloc.end_time)
  /\ Instants[alloc.end_time] < Instants[start]

StartsAfter(alloc, end) ==
  /\ WellFormed(end) /\ WellFormed(alloc.start_time)
  /\ Instants[alloc.start_time] > Instants[end]

NamespacePasses(alloc, namespace) ==
  namespace = "" \/ alloc.namespace = namespace

\* The record, or a filter, carries a timestamp that is malformed or missing.
BadTimestamp(alloc, f) ==
  \/ ~WellFormed(alloc.start_time) \/ ~WellFormed(alloc.end_time)
  \/ (f.start # "" /\ ~WellFormed(f.start))
  \/ (f.end # "" /\ ~WellFormed(f.end))

InSeq(x, s) == \E j \in 1..Len(s) : s[j] = x

\* C16: permissive handling of bad timestamps: in an answered request to
\* /allocations, a record with a malformed timestamp, or any record when the
\* start or end of the filter is malformed, is returned whenever its namespace
\* passes and no pair of well-formed timestamps excludes it.
C16_PermissiveTimestamps ==
  \A w \in Workers :
    AnsweredBy(w, "allocations") =>
      LET f == resp[w].filtersUsed IN
        \A i \in 1..Len(source.allocations) :
          LET alloc == source.allocations[i] IN
            /\ BadTimestamp(alloc, f)
            /\ NamespacePasses(alloc, f.namespace)
            /\ ~EndsBefore(alloc, f.start)
            /\ ~StartsAfter(alloc, f.end)
            => InSeq(alloc, resp[w].data)

\* Every timestamp the request meets is well-formed: the start and the end of
\* the filter (unless empty) and both timestamps of every record of the source.
AllWellFormed(f) ==
  /\ f.start = "" \/ WellFormed(f.start)
  /\ f.end = "" \/ WellFormed(f.end)
  /\ \A i \in 1..Len(source.allocations) :
       /\ WellFormed(source.allocations[i].start_time)
       /\ WellFormed(source.allocations[i].end_time)

\* The interval-overlap test on well-formed timestamps.
Overlaps(alloc, f) ==
  /\ f.namespace = "" \/ alloc.namespace = f.namespace
  /\ f.start = "" \/ ~(Instants[alloc.end_time] < Instants[f.start])
  /\ f.end = "" \/ ~(Instants[alloc.start_time] > Instants[f.end])

\* C17: allocation filtering is an interval-overlap test: with well-formed
\* timestamps the records returned are the records of the source whose namespace
\* equals the filter exactly (or the filter is empty), whose end is not before
\* the start of the filter and whose start is not after its end; a record
\* [2025-08-01, 2025-08-02] is returned for start = 2025-08-01 with an empty
\* end, and not for start = 2025-08-03.
C17_IntervalOverlap ==
  \A w \in Workers :
    AnsweredBy(w, "allocations") /\ AllWellFormed(resp[w].filtersUsed) =>
      LET f == resp[w].filtersUsed IN
        /\ resp[w].data =
             SelectSeq(source.allocations, LAMBDA alloc : Overlaps(alloc, f))
        /\ \A i \in 1..Len(source.allocations) :
             LET alloc == source.allocations[i] IN
               alloc.start_time = T1 /\ alloc.end_time = T2
               /\ f.namespace = "" /\ f.end = "" =>
                 /\ f.start = T1 => InSeq(alloc, resp[w].data)
                 /\ f.start = T3 => ~InSeq(alloc, resp[w].data)

\* A request with start = 2025-08-03 has been answered from a source of two
\* well-formed records: the one that ended on 2025-08-02 is dropped, the one
\* that starts and ends on 2025-08-03 is returned.
C17_Witness ==
  \E w \in Workers :
    /\ AnsweredBy(w, "allocations") /\ AllWellFormed(resp[w].filtersUsed)
    /\ resp[w].filtersUsed.start = T3
    /\ Len(source.allocations) = 2
    /\ source.allocations[1].end_time = T2
    /\ resp[w].data = <<source.allocations[2]>>
    /\ source.allocations[2].end_time = T3

\* The bytes of sub occur in cs, one after another, up to the case of letters.
OccursIgnoringCase(sub, cs) ==
  \E i \in 0..(Len(cs) - Len(sub)) :
    \A k \in 1..Len(sub) : SameLetter(cs[i + k], sub[k])

\* C18: cloudCost filtering returns the records of the source whose name
\* contains the namespace filter as a substring, without regard to case, and
\* all records for an empty filter; "PROD" keeps "prod-vm-1" and drops
\* "dev-vm-2".
C18_SubstringNoCase ==
  \A w \in Workers :
    AnsweredBy(w, "cloudCosts") =>
      LET ns == resp[w].filtersUsed.namespace IN
        /\ resp[w].data =
             SelectSeq(source.cloudCosts, LAMBDA cost :
               ns = "" \/ OccursIgnoringCase(Chars(ns), Chars(cost.name)))
        /\ ns = "PROD" =>
             /\ InSeq([name |-> "prod-vm-1"], source.cloudCosts)
                  => InSeq([name |-> "prod-vm-1"], resp[w].data)
             /\ ~InSeq([name |-> "dev-vm-2"], resp[w].data)

\* The filter "PROD" has been answered from the two records of the mock
\* server: "prod-vm-1" is returned, "dev-vm-2" is not.
C18_Witness ==
  \E w \in Workers :
    /\ AnsweredBy(w, "cloudCosts")
    /\ resp[w].filtersUsed.namespace = "PROD"
    /\ source.cloudCosts = cloudCostsData
    /\ resp[w].data = <<[name |-> "prod-vm-1"]>>

\* C19: asset filtering returns the records of the source whose provider equals
\* the provider filter and whose region equals the region filter, each ignoring
\* case and each only when the filter is not empty; with provider "aws" and an
\* empty region these are the records whose provider is "aws" ignoring case.
C19_AssetsNoCase ==
  \A w \in Workers :
    AnsweredBy(w, "assets") =>
      LET f == resp[w].filtersUsed IN
        /\ resp[w].data = AssetsKept(source.assets, f.provider, f.region)
        /\ f.provider = "aws" /\ f.region = "" =>
             \A i \in 1..Len(source.assets) :
               InSeq(source.assets[i], resp[w].data)
                 <=> source.assets[i].provider \in {"aws", "AWS", "Aws"}

\* The filter provider = "aws" has been answered from the two assets of the mock
\* server: the asset of "AWS" is returned, the one of "Azure" is not.
C19_Witness ==
  \E w \in Workers :
    /\ AnsweredBy(w, "assets")
    /\ resp[w].filtersUsed = [provider |-> "aws", region |-> ""]
    /\ source.assets = assetsData
    /\ resp[w].data = <<assetsData[1]>>

\* The records of the source that satisfy the filters f of a resource kind.
Satisfying(e, f) ==
  CASE e = "cloudCosts" ->
         SelectSeq(source.cloudCosts, LAMBDA cost :
           f.namespace = ""
             \/ OccursIgnoringCase(Chars(f.namespace), Chars(cost.name)))
    [] e = "allocations" ->
         SelectSeq(source.allocations, LAMBDA alloc :
           /\ NamespacePasses(alloc, f.namespace)
           /\ ~EndsBefore(alloc, f.start)
           /\ ~StartsAfter(alloc, f.end))
    [] e = "assets" -> AssetsKept(source.assets, f.provider, f.region)

\* C20: the response to a simple-form request (a GET with parameters) is the
\* filtered record sequence itself: a JSON array of the records of the source
\* that satisfy the filters given by the parameters.
C20_SimpleFormResponse ==
  \A w \in Workers :
    Answered(w) /\ req[w].method = "GET" =>
      /\ resp[w].body = "array"
      /\ resp[w].data =
           Satisfying(req[w].endpoint,
                      [n \in FilterFields |-> Get(req[w].url, n)])

\* The record satisfies the filters f of the resource kind e.
Satisfies(e, rec, f) ==
  CASE e = "cloudCosts" ->
         f.namespace = ""
           \/ OccursIgnoringCase(Chars(f.namespace), Chars(rec.name))
    [] e = "allocations" ->
         /\ NamespacePasses(rec, f.namespace)
         /\ ~EndsBefore(rec, f.start)
         /\ ~StartsAfter(rec, f.end)
    [] e = "assets" ->
         /\ f.provider = "" \/ SameIgnoringCase(rec.provider, f.provider)
         /\ f.region = "" \/ SameIgnoringCase(rec.region, f.region)

\* C21: every successful response envelope is consistent: meta.total is the
\* number of records in data, every record in data satisfies the filters that
\* meta.filtersUsed reports, and meta.session_id is the session identifier the
\* request supplied ("" for a request that supplied none).
C21_EnvelopeConsistent ==
  \A w \in Workers :
    Answered(w) =>
      /\ resp[w].total = Len(resp[w].data)
      /\ \A j \in 1..Len(resp[w].data) :
           Satisfies(req[w].endpoint, resp[w].data[j], resp[w].filtersUsed)
      /\ resp[w].session_id = req[w].sid

\* A structured request with a session and a filter has been answered with
\* some, not all, of the records of the source.
C21_Witness ==
  \E w \in Workers :
    /\ Answered(w) /\ Structured(w)
    /\ resp[w].session_id = "s1"
    /\ \E n \in DOMAIN resp[w].filtersUsed : resp[w].filtersUsed[n] # ""
    /\ resp[w].total = 1
    /\ Len(source[req[w].endpoint]) = 2

\* C22: every request runs to completion or fails: every received request
\* eventually reaches a terminal state, the client error of the parse step, the
\* server error of the fetch step or the response, whatever the other requests
\* in flight do.
C22_RunsToCompletion ==
  \A w \in Workers : (pc[w] = "received") ~> Done(w)

\* C23: the context of a response is a stable view of the store: while the
\* process runs, the conversation_context an answered valid request reports is
\* a prefix of the stored history of its session, under any interleaving of
\* the requests on that key.
C23_StableView ==
  ~crashed =>
    \A w \in Workers :
      Answered(w) /\ Valid(w) =>
        IsPrefix(resp[w].conversation_context, Stored(req[w].sid))

\* The handler serves a request that is no POST.
SimpleForm(w) == pc[w] \notin {"idle", "dead"} /\ req[w].method # "POST"

\* C24: a request that is no POST is read-only with respect to the sessions,
\* whatever its URL parameters: it never enters the history step, it holds
\* nothing read from the store, the store stays as it was when the request
\* arrived, and its response reports an empty session_id, an empty
\* previous_query and an empty conversation_context.
C24_SimpleFormReadOnly ==
  \A w \in Handler :
    SimpleForm(w) =>
      /\ ~InHistoryStep(w)
      /\ ~loc[w].ok
      /\ loc[w].existing = EmptySlice
      /\ loc[w].history = EmptySlice
      /\ StoreView = before[w]
      /\ Answered(w) =>
           /\ resp[w].session_id = ""
           /\ resp[w].previous_query = ""
           /\ resp[w].conversation_context = <<>>

\* A GET whose URL names a stored session has been answered.
C24_Witness ==
  \E w \in Handler :
    /\ SimpleForm(w) /\ Answered(w)
    /\ req[w].url = SessionParams
    /\ "s1" \in DOMAIN sessions

\* C25: the store is well formed: while the process runs, every key of the
\* store is a non-empty string, its history is non-empty and every element of
\* it is the non-empty query text of a request; and a key is present exactly
\* when at least one valid structured request on it has completed its map
\* write, so that no session is ever removed.
C25_StoreWellFormed ==
  ~crashed =>
    /\ \A k \in DOMAIN sessions :
         /\ k # ""
         /\ Stored(k) # <<>>
         /\ \A i \in 1..Len(Stored(k)) : Stored(k)[i] \in Queries
    /\ \A k \in DOMAIN log : k \in DOMAIN sessions <=> log[k] # <<>>

\* The POST of this turn of the CLI failed: the gateway could not be reached,
\* or it answered with an error status.
CliFailed ==
  \/ cli.sent = "failed"
  \/ cli.sent = "delivered" /\ cli.status \notin {0, 200}

\* C26: when the gateway answers the request of the CLI with an error or
\* cannot be reached, the CLI has printed an error line and no data record for
\* that request, and it is back at its prompt: it has not terminated.
C26_CliFailureSurface ==
  CliFailed =>
    /\ cli.error # ""
    /\ cli.records = <<>>
    /\ cli.pc = "prompt"

\* On its second turn, with a session stored, the CLI was answered a server
\* error.
C26_Witness ==
  /\ CliFailed
  /\ cli.status = 500
  /\ cli.turns = 2
  /\ CliSession \in DOMAIN sessions

=============================================================================
